---------------------------- MODULE Spec2Model ----------------------------
(***************************************************************************)
(* A model of minsandbox (package sandbox): the IsolateBox handle with its *)
(* mutex, New / Close, the file helpers, RunCommand with its retry loop,   *)
(* and the flag builder buildRunFlags.                                     *)
(*                                                                         *)
(* Go strings are modelled as sequences of tokens: "" is << >> and string  *)
(* concatenation is \o.  A flag list ([]string) is a sequence of strings.  *)
(***************************************************************************)
EXTENDS Integers, Sequences, FiniteSets, TLC

\* ------------------------------------------------------------------ bounds
\* Longest Directories list drawn for a RunConfig of the flag-builder specification.
MaxDirs == 2
\* Number of box handles New may hand out in the concurrent specification.
MaxBoxes == 2
\* Number of adverse events the environment may produce for the RunCommand
\* calls of one behaviour (failures of os.CreateTemp, failures to start the
\* primitive, runs of the primitive whose report RunCommand does not return,
\* cancellations of a caller's context): with two concurrent callers, and
\* with a single caller.
MaxFaults == 1
MaxRunFaults == 4
\* Longest report file (in lines) given to parseMetaFile.
MaxLines == 3

\* --------------------------------------------------------------- constants
\* sandbox.go:24
runErrRetries == 3

\* ----------------------------------------------------------------- strings
Empty == << >>
DevNull == <<"/dev/null">>

HasPrefix(s, p) == Len(s) >= Len(p) /\ SubSeq(s, 1, Len(p)) = p

Contains(s, p) ==
  \E k \in 0..(Len(s) - Len(p)) : SubSeq(s, k + 1, k + Len(p)) = p

\* strconv.Itoa
Itoa(n) == <<ToString(n)>>

\* strconv.FormatFloat(v, 'f', -1, 64) for a value held in tenths: the
\* shortest decimal that reads back as v.
FormatFloat(v) ==
  IF v % 10 = 0 THEN <<ToString(v \div 10)>>
  ELSE <<ToString(v \div 10), ".", ToString(v % 10)>>

RECURSIVE Flatten(_)
Flatten(ss) == IF ss = << >> THEN << >> ELSE Head(ss) \o Flatten(Tail(ss))

\* ------------------------------------------------------------ buildRunFlags
NoFile == "nil"

\* dirFlags without the continue of the Removes branch: a remove rule falls
\* through to the add branch as well.
BrokenDirFlags(dir) ==
  LET a == <<"--dir=">> \o dir.In
      b == IF dir.Out = Empty
           THEN (IF ~dir.Verbatim THEN a \o <<"=">> \o dir.In ELSE a)
           ELSE a \o <<"=">> \o dir.Out
      d == IF dir.Opts # Empty THEN b \o <<":">> \o dir.Opts ELSE b
  IN  (IF dir.Removes THEN << <<"--dir=">> \o dir.In \o <<"=">> >> ELSE << >>)
      \o << d >>

\* One iteration of the loop over c.Directories: the flags it appends.
dirFlags(dir) ==
  IF dir.Removes
  THEN << <<"--dir=">> \o dir.In \o <<"=">> >>
  ELSE LET a == <<"--dir=">> \o dir.In
           b == IF dir.Out = Empty
                THEN (IF ~dir.Verbatim THEN a \o <<"=">> \o dir.In ELSE a)
                ELSE a \o <<"=">> \o dir.Out
           d == IF dir.Opts # Empty THEN b \o <<":">> \o dir.Opts ELSE b
       IN  << d >>

\* envFlags with the EnvToSet loop moved before the EnvToInherit loop.
BrokenEnvFlags(c, order) ==
  (IF c.InheritEnv THEN << <<"--full-env">> >> ELSE << >>)
  \o [k \in 1..Len(order) |->
        <<"--env=">> \o order[k] \o <<"=">> \o c.EnvToSet[order[k]]]
  \o [k \in 1..Len(c.EnvToInherit) |-> <<"--env=">> \o c.EnvToInherit[k]]

\* The environment flags; order is the order in which the range over the
\* map c.EnvToSet visits its keys (Go leaves it unspecified).
envFlags(c, order) ==
  (IF c.InheritEnv THEN << <<"--full-env">> >> ELSE << >>)
  \o [k \in 1..Len(c.EnvToInherit) |-> <<"--env=">> \o c.EnvToInherit[k]]
  \o [k \in 1..Len(order) |->
        <<"--env=">> \o order[k] \o <<"=">> \o c.EnvToSet[order[k]]]

limitFlags(c) ==
  (IF c.TimeLimit # 0
     THEN << <<"--time=">> \o FormatFloat(c.TimeLimit) >> ELSE << >>)
  \o (IF c.WallTimeLimit # 0
     THEN << <<"--wall-time=">> \o FormatFloat(c.WallTimeLimit) >> ELSE << >>)
  \o (IF c.MemoryLimit # 0
     THEN << <<"--cg-mem=">> \o Itoa(c.MemoryLimit) >> ELSE << >>)

\* substituteDefaults that also sets StderrPath when StderrToStdout is set.
EagerSubstituteDefaults(c) ==
  [c EXCEPT !.InputPath = IF @ = Empty THEN DevNull ELSE @,
            !.OutputPath = IF @ = Empty THEN DevNull ELSE @,
            !.StderrPath = IF @ = Empty THEN DevNull ELSE @]

\* substituteDefaults without the StderrPath and OutputPath defaults.
BrokenSubstituteDefaults(c) ==
  [c EXCEPT !.InputPath = IF @ = Empty THEN DevNull ELSE @]

\* The in-place default substitution of the three stdio paths.
substituteDefaults(c) ==
  [c EXCEPT !.InputPath = IF @ = Empty THEN DevNull ELSE @,
            !.OutputPath = IF @ = Empty THEN DevNull ELSE @,
            !.StderrPath = IF ~c.StderrToStdout /\ @ = Empty THEN DevNull ELSE @]

stdioFlags(c) ==
  << <<"--stdin=">> \o c.InputPath, <<"--stdout=">> \o c.OutputPath >>
  \o (IF c.StderrToStdout THEN << <<"--stderr-to-stdout">> >>
      ELSE << <<"--stderr=">> \o c.StderrPath >>)

\* buildRunFlags(c, metaFile) on box boxID: the flag list res and the
\* RunConfig as the call leaves it (c is a pointer, written in place).
buildRunFlags(boxID, c, metaFile, order) ==
  LET c2 == substituteDefaults(c)
  IN  [res |-> << <<"--box-id=">> \o Itoa(boxID), <<"--cg">>, <<"--processes">> >>
               \o Flatten([k \in 1..Len(c.Directories) |-> dirFlags(c.Directories[k])])
               \o envFlags(c, order)
               \o limitFlags(c)
               \o stdioFlags(c2)
               \o (IF metaFile # NoFile THEN << <<"--meta=">> \o metaFile >> ELSE << >>)
               \o << <<"--silent">>, <<"--run">>, <<"--">> >>,
       c   |-> c2]

\* ------------------------------------------------------------ parseMetaFile
\* A line of a report file is a sequence of tokens: a key word, the byte ":",
\* and the bytes of the value, one token per byte for numbers.
Digits == {"0", "1", "2", "3", "4", "5", "6", "7", "8", "9"}
DigitVal(c) == CHOOSE n \in 0..9 : ToString(n) = c

\* strconv.IntSize and the largest and smallest int of a 32-bit build.
IntSize == 32
IntMax == 2147483647
IntMin == -IntMax - 1

\* The value of a string of digits, or -1 when it exceeds IntMax.
RECURSIVE ParseUint(_, _)
ParseUint(s, n) ==
  IF s = << >> THEN n
  ELSE LET d == DigitVal(Head(s)) IN
         IF n > (IntMax - d) \div 10 THEN -1 ELSE ParseUint(Tail(s), 10 * n + d)

Unsigned(s) == IF s # << >> /\ Head(s) \in {"+", "-"} THEN Tail(s) ELSE s
AllDigits(s) == \A k \in 1..Len(s) : s[k] \in Digits

\* strconv.Atoi with its error dropped (file.X, _ = strconv.Atoi(val)): 0 on
\* a syntax error; on a range error the int of largest magnitude and the
\* value's sign.
Atoi(s) ==
  LET neg == s # << >> /\ Head(s) = "-"
      body == Unsigned(s)
  IN  IF body = << >> \/ ~AllDigits(body) THEN 0
      ELSE LET m == ParseUint(body, 0) IN
             IF m = -1 THEN (IF neg THEN IntMin ELSE IntMax)
             ELSE IF neg THEN -m ELSE m

RECURSIVE Pow10(_)
Pow10(k) == IF k <= 0 THEN 1 ELSE 10 * Pow10(k - 1)

\* A float64, held in thousandths (smaller parts dropped), or an infinity or
\* a NaN.
Float(milli) == [cls |-> "finite", milli |-> milli]
Inf(neg) == [cls |-> "inf", milli |-> IF neg THEN -1 ELSE 1]
NaN == [cls |-> "nan", milli |-> 0]

\* The first position of token c in s, or 0.
IndexOf(s, c) ==
  IF \E k \in 1..Len(s) : s[k] = c
  THEN CHOOSE k \in 1..Len(s) : s[k] = c /\ \A j \in 1..(k - 1) : s[j] # c
  ELSE 0

\* strconv.ParseFloat(val, 64) with its error dropped, for decimal numbers
\* [sign] digits [. digits] [e [sign] digits] and the words inf, infinity and
\* nan: 0 on a syntax error, an infinity on a range error.
ParseFloat(s) ==
  LET neg == s # << >> /\ Head(s) = "-"
      body == Unsigned(s)
      e == IndexOf(body, "e")
      mant == IF e = 0 THEN body ELSE SubSeq(body, 1, e - 1)
      expo == IF e = 0 THEN << >> ELSE SubSeq(body, e + 1, Len(body))
      dot == IndexOf(mant, ".")
      int == IF dot = 0 THEN mant ELSE SubSeq(mant, 1, dot - 1)
      frac == IF dot = 0 THEN << >> ELSE SubSeq(mant, dot + 1, Len(mant))
      wellFormed ==
        /\ AllDigits(int) /\ AllDigits(frac) /\ int \o frac # << >>
        /\ e # 0 => (Unsigned(expo) # << >> /\ AllDigits(Unsigned(expo)))
      E == IF e = 0 THEN 0 ELSE Atoi(expo)
      M == ParseUint(int \o frac, 0)
      shift == E - Len(frac) + 3
      mag == IF shift >= 0 THEN M * Pow10(shift) ELSE M \div Pow10(-shift)
  IN  IF body \in {<<"inf">>, <<"infinity">>} THEN Inf(neg)
      ELSE IF s = <<"nan">> THEN NaN
      ELSE IF ~wellFormed THEN Float(0)
      ELSE IF M = 0 THEN Float(0)
      ELSE IF E + Len(int) > 309 THEN Inf(neg)
      ELSE Float(IF neg THEN -mag ELSE mag)

\* A run of 64 KiB of bytes without a newline (bufio.MaxScanTokenSize).
LongRun == "x (65536 times)"

\* bufio.Scanner with the default buffer: a line of MaxScanTokenSize bytes or
\* more makes Scan return false (ErrTooLong), as the end of the input does.
TooLong(line) == \E k \in 1..Len(line) : line[k] = LongRun

\* bufio.ScanLines: s.Text() is the line without a trailing carriage return.
Text(line) ==
  IF line # << >> /\ line[Len(line)] = "\r" THEN SubSeq(line, 1, Len(line) - 1)
  ELSE line

\* strings.Cut(s, ":")
Cut(s) ==
  LET k == IndexOf(s, ":") IN
    IF k = 0 THEN [key |-> s, val |-> << >>, found |-> FALSE]
    ELSE [key |-> SubSeq(s, 1, k - 1), val |-> SubSeq(s, k + 1, Len(s)),
          found |-> TRUE]

IgnoredKeys ==
  {<<"time-wall">>, <<"max-rss">>, <<"csw-voluntary">>, <<"csw-forced">>,
   <<"cg-enabled">>, <<"cg-oom-killed">>}

\* A nil *RunStats, and new(RunStats) with InternalMessage set.
NilStats ==
  [nil |-> TRUE, Memory |-> 0, ExitCode |-> 0, ExitSignal |-> 0, Killed |-> FALSE,
   Message |-> << >>, Status |-> << >>, Time |-> Float(0), InternalMessage |-> << >>]
NewStats(out) == [NilStats EXCEPT !.nil = FALSE, !.InternalMessage = out]

\* One iteration of the scan loop of parseMetaFile: the report after the line.
parseLine(file, line) ==
  LET c == Cut(Text(line)) IN
    IF ~c.found THEN file
    ELSE CASE c.key = <<"cg-mem">> -> [file EXCEPT !.Memory = Atoi(c.val)]
           [] c.key = <<"exitcode">> -> [file EXCEPT !.ExitCode = Atoi(c.val)]
           [] c.key = <<"exitsig">> -> [file EXCEPT !.ExitSignal = Atoi(c.val)]
           [] c.key = <<"killed">> -> [file EXCEPT !.Killed = TRUE]
           [] c.key = <<"message">> -> [file EXCEPT !.Message = c.val]
           [] c.key = <<"status">> -> [file EXCEPT !.Status = c.val]
           [] c.key = <<"time">> -> [file EXCEPT !.Time = ParseFloat(c.val)]
           [] c.key \in IgnoredKeys -> file
           [] OTHER -> file

\* ------------------------------------------------------------------- state
VARIABLES
  cell,     \* the isolation primitive's cell of each box id: its mode and files
  rootOK,   \* whether the primitive binary runs with the privilege it asks for
  boxes,    \* the *IsolateBox handles New has returned: [boxID, path] each
  mu,       \* mu[h]: the goroutine holding the mutex of handle h, or NoThread
  conf,     \* the callers' RunConfig objects, by reference
  pc,       \* where each calling goroutine is
  loc,      \* each goroutine's arguments, locals and call history
  faults,   \* the number of adverse events the environment may still produce
  fcfg,     \* flag builder: the RunConfig objects "A" and "B" as the builds leave them
  fcfg0,    \* flag builder: the RunConfig value both objects started from
  fres,     \* flag builder: the flag list of the latest build on each object
  fbuilds,  \* flag builder: number of builds done on each object
  fmeta,    \* flag builder: the metaFile argument (a name, or NoFile for nil)
  mlines,   \* decoder: the lines of the report file behind the reader r
  mstate,   \* decoder: where parseMetaFile is
  mnext,    \* decoder: the number of the line the next s.Scan() reaches
  mfile,    \* decoder: the RunStats being filled (file)
  mprev     \* decoder: file as it was before the line scanned last

mvars == <<mlines, mstate, mnext, mfile, mprev>>
fvars == <<fcfg, fcfg0, fres, fbuilds, fmeta, mvars>>
bvars == <<cell, rootOK, boxes, mu, conf, pc, loc, faults>>
vars == <<bvars, fvars>>

\* ------------------------------------------------------ RunConfig inputs
Paths == {Empty, <<"/box/f">>}

\* type Directory
DirRules ==
  [In : {<<"/etc">>}, Out : {Empty, <<"/o">>}, Opts : {Empty, <<"rw">>},
   Removes : BOOLEAN, Verbatim : BOOLEAN]

DirLists == UNION {[1..n -> DirRules] : n \in 0..MaxDirs}

\* EnvToSet: a map from names to values (nil and empty alike: no key).
EnvMaps ==
  UNION {[ks -> {<<"v">>}] : ks \in SUBSET {<<"K1">>, <<"K2">>}}

\* The RunConfig of the demo program.
DemoConfig ==
  [StderrToStdout |-> TRUE, InputPath |-> <<"/box/prog.in">>,
   OutputPath |-> <<"/box/prog.out">>, StderrPath |-> Empty,
   MemoryLimit |-> 1048576, TimeLimit |-> 15, WallTimeLimit |-> 30,
   InheritEnv |-> TRUE, EnvToInherit |-> << >>, EnvToSet |-> << >>,
   Directories |-> << [In |-> <<"/etc">>, Out |-> Empty, Opts |-> Empty,
                       Removes |-> FALSE, Verbatim |-> FALSE] >>]

\* The zero RunConfig.
ZeroConfig ==
  [StderrToStdout |-> FALSE, InputPath |-> Empty, OutputPath |-> Empty,
   StderrPath |-> Empty, MemoryLimit |-> 0, TimeLimit |-> 0, WallTimeLimit |-> 0,
   InheritEnv |-> FALSE, EnvToInherit |-> << >>, EnvToSet |-> << >>,
   Directories |-> << >>]

\* type RunConfig: the values the builds are run on.  Every directory list
\* with the demo's and the zero value's other fields, and every stdio and
\* environment setting with the demo's and the zero value's other fields.
RunConfigs ==
  {[b EXCEPT !.Directories = d] : b \in {DemoConfig, ZeroConfig}, d \in DirLists}
  \cup
  {[b EXCEPT !.StderrToStdout = s, !.InputPath = i, !.OutputPath = o,
             !.StderrPath = e, !.InheritEnv = f, !.EnvToInherit = n,
             !.EnvToSet = m] :
     b \in {DemoConfig, ZeroConfig}, s \in BOOLEAN, i \in Paths, o \in Paths,
     e \in Paths, f \in BOOLEAN, n \in {<< >>, <<<<"PATH">>>>}, m \in EnvMaps}

\* The orders in which a range over map m may visit its keys.
KeyOrders(m) ==
  {o \in [1..Cardinality(DOMAIN m) -> DOMAIN m] :
     \A a, b \in DOMAIN o : a # b => o[a] # o[b]}

Objs == {"A", "B"}
NotBuilt == << >>

\* ------------------------------------------------- goroutines and handles
Threads == {"g1", "g2"}
NoThread == "none"
DemoBoxID == 50
BoxIDs == {DemoBoxID, DemoBoxID + 1}
Handles == 1..MaxBoxes
ConfRefs == {"c1", "c2"}
\* The one file the callers stage in a box.
BoxFile == <<"/box/prog.in">>

\* A nil *RunStats, and the RunStats a report decodes to.
Nil == [nil |-> TRUE, Status |-> Empty, ExitCode |-> 0, InternalMessage |-> Empty]
RunStats(status, exitCode, msg) ==
  [nil |-> FALSE, Status |-> status, ExitCode |-> exitCode, InternalMessage |-> msg]
NoErr == "nil"
ExitError == "*exec.ExitError"
NoCell == [mode |-> "absent", files |-> {}]

\* A goroutine outside any call.
Loc0 ==
  [op |-> "none", h |-> 0, id |-> 0, cref |-> "none", ctxDone |-> FALSE,
   i |-> 0, meta |-> Nil, err |-> NoErr, found |-> FALSE, metaFiles |-> {},
   spawns |-> 0, sleeps |-> 0, allXX |-> TRUE, spawnFailed |-> FALSE,
   sleepCancelled |-> FALSE, sleptCancelled |-> FALSE,
   built |-> FALSE, wrote |-> FALSE,
   report |-> Nil, reportAt |-> 0, sleepAt |-> 0,
   branch |-> "none", remedy |-> "none",
   prevBranch |-> "none", prevRemedy |-> "none",
   ret |-> << >>, initErr |-> NoErr, prevRet |-> << >>,
   remedyErr |-> NoErr, nRemedies |-> 0, prevN |-> 0,
   closeRuns |-> 0, closeErr |-> NoErr, conf0 |-> ZeroConfig]

\* ------------------------------------------------- the isolation primitive
\* The directory isolate --init prints for a box id.
BoxPath(id) == <<"/var/local/lib/isolate/", ToString(id), "/box">>

\* isolate --cg --box-id=<id> --init run on cell c: the combined output, the
\* error of CombinedOutput and the cell it leaves.
IsolateInit(id, c, root) ==
  IF ~root
  THEN {[out |-> <<"Must be started as root", "\n">>, err |-> ExitError, cell |-> c]}
  ELSE IF c.mode = "cg"
  THEN {[out |-> <<"Box already exists", ", run `isolate --cleanup' first", "\n">>,
         err |-> ExitError, cell |-> c]}
  ELSE IF c.mode = "nocg"
  THEN {[out |-> <<"Box was initialized with ", "incompatible control group mode", "\n">>,
         err |-> ExitError, cell |-> c]}
  ELSE {[out |-> BoxPath(id) \o <<"\n">>, err |-> NoErr,
         cell |-> [mode |-> "cg", files |-> {}]],
        [out |-> <<"Cannot create box directory", "\n">>, err |-> ExitError, cell |-> c]}

\* isolate [--cg] --box-id=<id> --cleanup run on cell c: the error of the run
\* and the cell it leaves.  A cleanup in the wrong control group mode fails;
\* one in the right mode may fail too.
IsolateCleanup(c, cg) ==
  {[err |-> ExitError, cell |-> c]}
  \cup (IF c.mode = "absent" \/ (c.mode = "cg") = cg
        THEN {[err |-> NoErr, cell |-> NoCell]} ELSE {})

\* What one run of isolate --run can end with: the error of cmd.Run and the
\* RunStats parseMetaFile decodes from the meta file and the output.
RunOutcomes ==
  {[runErr |-> NoErr, report |-> RunStats(Empty, 0, Empty)],
   [runErr |-> ExitError, report |-> RunStats(<<"RE">>, 1, Empty)],
   [runErr |-> ExitError,
    report |-> RunStats(<<"RE">>, 127, <<"execve", "(\"/box/prog\"): Text file busy">>)],
   [runErr |-> ExitError,
    report |-> RunStats(<<"XX">>, 0, <<"Cannot run proxy, clone failed">>)]}

\* The errors of cmd.Run that are no *exec.ExitError.
StartErrors == {"fork/exec: no such file or directory"}
CtxError == "context canceled"

\* ------------------------------------------------------------ code helpers
\* strings.TrimSpace
TrimSpace(s) == SelectSeq(s, LAMBDA x : x # "\n")

\* sync.Mutex: Lock returns when no goroutine holds the mutex.
BrokenCanLock(h) == TRUE

CanLock(h) == mu[h] = NoThread

\* runCommand, line 155: an error of cmd.Run that is not an exit status.
isHardError(err) == err # NoErr /\ err # ExitError

\* RunCommand, line 191 without the test of the status.
BrokenAccepted(meta, err) == err = NoErr /\ ~meta.nil

\* RunCommand, line 191 with a test of the exit code added.
StrictAccepted(meta, err) ==
  err = NoErr /\ ~meta.nil /\ meta.Status # <<"XX">> /\ meta.ExitCode = 0

\* RunCommand, line 191: the attempt's report is taken.
accepted(meta, err) == err = NoErr /\ ~meta.nil /\ meta.Status # <<"XX">>

\* RunCommand without lines 192-197.
NoTextFileBusy(meta) == meta.ExitCode = 127 /\ FALSE

\* RunCommand, lines 192-193: "text file busy, most likely".
textFileBusy(meta) ==
  meta.ExitCode = 127 /\ Contains(meta.InternalMessage, <<"execve">>)

\* New without the test of err (lines 238-240).
NewBranchNoErrTest(ret, err) ==
  IF HasPrefix(ret, <<"Box already exists">>) THEN "cleanup"
  ELSE IF Contains(ret, <<"incompatible control group mode">>) THEN "cleanup_nocg"
  ELSE IF HasPrefix(ret, <<"Must be started as root">>) THEN "chown"
  ELSE "box"

\* New with --cg in the cleanup of line 224 as well.
NewBranchAlwaysCg(ret, err) ==
  IF HasPrefix(ret, <<"Box already exists">>) THEN "cleanup"
  ELSE IF Contains(ret, <<"incompatible control group mode">>) THEN "cleanup"
  ELSE IF HasPrefix(ret, <<"Must be started as root">>) THEN "chown"
  ELSE IF err # NoErr THEN "error"
  ELSE "box"

\* New, lines 214-242: what New does with the output and error of --init.
newBranch(ret, err) ==
  IF HasPrefix(ret, <<"Box already exists">>) THEN "cleanup"
  ELSE IF Contains(ret, <<"incompatible control group mode">>) THEN "cleanup_nocg"
  ELSE IF HasPrefix(ret, <<"Must be started as root">>) THEN "chown"
  ELSE IF err # NoErr THEN "error"
  ELSE "box"

\* The box id a goroutine's call is about.
IdOf(t) == IF loc[t].h # 0 THEN boxes[loc[t].h].boxID ELSE loc[t].id

NewPcs == {"new_init", "new_cleanup", "new_cleanup_nocg", "new_chown"}
RunPcs == {"run_loop", "run_wait", "run_sleep"}
SectionPcs == {"WriteFile", "ReadFile", "FileExists", "Close"} \cup RunPcs

\* A goroutine between b.mu.Lock() and the deferred b.mu.Unlock().
InSection(t) == pc[t] \in SectionPcs

\* ------------------------------------------------------------ the callers
\* A goroutine calls New(id).  New is not called when every handle of the
\* model is taken or spoken for.
CallNew(t) ==
  /\ pc[t] = "idle"
  /\ Len(boxes) + Cardinality({u \in Threads : pc[u] \in NewPcs}) < MaxBoxes
  /\ \E id \in BoxIDs :
       loc' = [loc EXCEPT ![t] = [Loc0 EXCEPT !.op = "New", !.id = id]]
  /\ pc' = [pc EXCEPT ![t] = "new_init"]
  /\ UNCHANGED <<cell, rootOK, boxes, mu, conf, faults, fvars>>

\* A goroutine calls WriteFile, ReadFile, FileExists or Close on a handle New
\* returned: it arrives at b.mu.Lock().
CallOp(t) ==
  /\ pc[t] = "idle"
  /\ \E h \in 1..Len(boxes), op \in {"WriteFile", "ReadFile", "FileExists", "Close"} :
       loc' = [loc EXCEPT ![t] = [Loc0 EXCEPT !.op = op, !.h = h]]
  /\ pc' = [pc EXCEPT ![t] = "lock"]
  /\ UNCHANGED <<cell, rootOK, boxes, mu, conf, faults, fvars>>

\* A goroutine calls RunCommand(ctx, command, conf) on a handle New returned,
\* with one of the callers' RunConfig objects: it arrives at b.mu.Lock().
CallRun(t) ==
  /\ pc[t] = "idle"
  /\ \E h \in 1..Len(boxes), c \in ConfRefs :
       loc' = [loc EXCEPT ![t] = [Loc0 EXCEPT !.op = "RunCommand", !.h = h, !.cref = c,
                                              !.conf0 = conf[c]]]
  /\ pc' = [pc EXCEPT ![t] = "lock"]
  /\ UNCHANGED <<cell, rootOK, boxes, mu, conf, faults, fvars>>

\* b.mu.Lock() returns.
Lock(t) ==
  /\ pc[t] = "lock"
  /\ CanLock(loc[t].h)
  /\ mu' = [mu EXCEPT ![loc[t].h] = t]
  /\ pc' = [pc EXCEPT ![t] = IF loc[t].op = "RunCommand" THEN "run_loop" ELSE loc[t].op]
  /\ loc' = [loc EXCEPT ![t].i = IF loc[t].op = "RunCommand" THEN 1 ELSE 0]
  /\ UNCHANGED <<cell, rootOK, boxes, conf, fvars, faults>>

\* The deferred b.mu.Unlock().
Unlocked(t) == [mu EXCEPT ![loc[t].h] = NoThread]

\* WriteFile: writeFile under the mutex.  The file is created in the box
\* directory when the cell exists.
WriteFile(t) ==
  /\ pc[t] = "WriteFile"
  /\ LET id == boxes[loc[t].h].boxID IN
       IF cell[id].mode # "absent"
       THEN /\ cell' = [cell EXCEPT ![id].files = @ \cup {BoxFile}]
            /\ loc' = [loc EXCEPT ![t].err = NoErr]
       ELSE /\ cell' = cell
            /\ loc' = [loc EXCEPT ![t].err = "no such file or directory"]
  /\ mu' = Unlocked(t)
  /\ pc' = [pc EXCEPT ![t] = "ret"]
  /\ UNCHANGED <<rootOK, boxes, conf, fvars, faults>>

\* ReadFile: readFile under the mutex.
ReadFile(t) ==
  /\ pc[t] = "ReadFile"
  /\ LET id == boxes[loc[t].h].boxID IN
       loc' = [loc EXCEPT ![t].err = IF BoxFile \in cell[id].files THEN NoErr
                                      ELSE "no such file or directory"]
  /\ mu' = Unlocked(t)
  /\ pc' = [pc EXCEPT ![t] = "ret"]
  /\ UNCHANGED <<cell, rootOK, boxes, conf, fvars, faults>>

\* FileExists: checkFile under the mutex.
FileExists(t) ==
  /\ pc[t] = "FileExists"
  /\ LET id == boxes[loc[t].h].boxID IN
       loc' = [loc EXCEPT ![t].found = BoxFile \in cell[id].files]
  /\ mu' = Unlocked(t)
  /\ pc' = [pc EXCEPT ![t] = "ret"]
  /\ UNCHANGED <<cell, rootOK, boxes, conf, fvars, faults>>

\* Close running the cleanup again, still under the mutex, when it failed.
RetryingClose(t) ==
  /\ pc[t] = "Close"
  /\ LET id == boxes[loc[t].h].boxID IN
       \E r \in IsolateCleanup(cell[id], TRUE) :
         /\ cell' = [cell EXCEPT ![id] = r.cell]
         /\ loc' = [loc EXCEPT ![t].err = r.err, ![t].closeErr = r.err,
                                ![t].closeRuns = @ + 1]
         /\ mu' = IF r.err = NoErr THEN Unlocked(t) ELSE mu
         /\ pc' = [pc EXCEPT ![t] = IF r.err = NoErr THEN "ret" ELSE "Close"]
  /\ UNCHANGED <<rootOK, boxes, conf, fvars, faults>>

\* Close: isolate --cg --cleanup under the mutex; its error is returned.
Close(t) ==
  /\ pc[t] = "Close"
  /\ LET id == boxes[loc[t].h].boxID IN
       \E r \in IsolateCleanup(cell[id], TRUE) :
         /\ cell' = [cell EXCEPT ![id] = r.cell]
         /\ loc' = [loc EXCEPT ![t].err = r.err, ![t].closeErr = r.err,
                                ![t].closeRuns = @ + 1]
  /\ mu' = Unlocked(t)
  /\ pc' = [pc EXCEPT ![t] = "ret"]
  /\ UNCHANGED <<rootOK, boxes, conf, fvars, faults>>

\* The caller takes the results of a returned call.
Return(t) ==
  /\ pc[t] = "ret"
  /\ pc' = [pc EXCEPT ![t] = "idle"]
  /\ loc' = [loc EXCEPT ![t] = Loc0]
  /\ UNCHANGED <<cell, rootOK, boxes, mu, conf, fvars, faults>>

\* -------------------------------------------------------------- RunCommand
\* RunCommand returning without the deferred b.mu.Unlock() of line 167.
NoDeferredUnlock(t, l, meta, err) ==
  /\ loc' = [loc EXCEPT ![t] = [l EXCEPT !.meta = meta, !.err = err, !.metaFiles = {}]]
  /\ mu' = mu
  /\ pc' = [pc EXCEPT ![t] = "ret"]

\* RunCommand returning without the deferred os.Remove of line 189.
NoDeferredRemove(t, l, meta, err) ==
  /\ loc' = [loc EXCEPT ![t] = [l EXCEPT !.meta = meta, !.err = err]]
  /\ mu' = Unlocked(t)
  /\ pc' = [pc EXCEPT ![t] = "ret"]

\* RunCommand returns (meta, err): the deferred os.Remove calls of the loop
\* remove every report file the call still has, the mutex is released.
runReturn(t, l, meta, err) ==
  /\ loc' = [loc EXCEPT ![t] = [l EXCEPT !.meta = meta, !.err = err, !.metaFiles = {}]]
  /\ mu' = Unlocked(t)
  /\ pc' = [pc EXCEPT ![t] = "ret"]

\* The loop's i++ and test: the next attempt, or "return meta, nil" after
\* the last.
runContinue(t, l) ==
  IF l.i + 1 > runErrRetries
  THEN runReturn(t, [l EXCEPT !.i = @ + 1], l.meta, NoErr)
  ELSE /\ loc' = [loc EXCEPT ![t] = [l EXCEPT !.i = @ + 1]]
       /\ pc' = [pc EXCEPT ![t] = "run_loop"]
       /\ mu' = mu

\* The attempt did not end in a return: time.Sleep(runErrTimeout) begins.
runSleep(t, l) ==
  /\ loc' = [loc EXCEPT ![t] = [l EXCEPT !.sleepCancelled = l.ctxDone,
                                         !.sleepAt = l.i]]
  /\ pc' = [pc EXCEPT ![t] = "run_sleep"]
  /\ mu' = mu

\* One pass of the loop body up to cmd.Run starting the primitive:
\* os.CreateTemp (a failure continues the loop at once), buildRunFlags on the
\* caller's RunConfig, exec.CommandContext and the start of the process.  A
\* context that is already done, or a primitive that cannot be started, ends
\* cmd.Run with an error that is no exit status: runCommand returns (nil, err)
\* and leaves the report file in place.
RunAttempt(t) ==
  /\ pc[t] = "run_loop"
  /\ LET l == loc[t]
         id == boxes[l.h].boxID
     IN  \/ /\ faults > 0
            /\ faults' = faults - 1
            /\ runContinue(t, [l EXCEPT !.allXX = FALSE])
            /\ conf' = conf
         \/ \E order \in KeyOrders(conf[l.cref].EnvToSet),
               startErr \in {NoErr} \cup (IF l.ctxDone THEN {} ELSE StartErrors) :
              LET r == buildRunFlags(id, conf[l.cref],
                                     <<"/tmp/sandbox-meta-", ToString(l.i)>>, order)
                  err == IF l.ctxDone THEN CtxError ELSE startErr
                  l1 == [l EXCEPT !.metaFiles = @ \cup {l.i}, !.built = TRUE,
                                  !.wrote = @ \/ r.c # conf[l.cref]]
              IN  /\ startErr # NoErr => faults > 0
                  /\ faults' = IF startErr # NoErr THEN faults - 1 ELSE faults
                  /\ conf' = [conf EXCEPT ![l.cref] = r.c]
                  /\ IF isHardError(err)
                     THEN runSleep(t, [l1 EXCEPT !.meta = Nil, !.spawnFailed = TRUE,
                                                 !.allXX = FALSE])
                     ELSE /\ loc' = [loc EXCEPT ![t] = [l1 EXCEPT !.spawns = @ + 1]]
                          /\ pc' = [pc EXCEPT ![t] = "run_wait"]
                          /\ mu' = mu
  /\ UNCHANGED <<cell, rootOK, boxes, fvars>>

\* cmd.Run returns: the primitive has exited.  An exit status, zero or not,
\* is no error of runCommand: the report is decoded and the report file
\* removed.  Then RunCommand's test of the attempt: return the report, or
\* sleep and go on.  Once the context is done the wait may also end with
\* the context's error.
RunWaitDone(t) ==
  /\ pc[t] = "run_wait"
  /\ LET l == loc[t] IN
       \E o \in RunOutcomes \cup
                (IF l.ctxDone THEN {[runErr |-> CtxError, report |-> Nil]} ELSE {}) :
         LET hard == isHardError(o.runErr)
             meta == IF hard THEN Nil ELSE o.report
             err == IF hard THEN o.runErr ELSE NoErr
             l1 == [l EXCEPT !.meta = meta,
                             !.report = IF hard THEN @ ELSE o.report,
                             !.reportAt = IF hard THEN @ ELSE l.i,
                             !.metaFiles = IF hard THEN @ ELSE @ \ {l.i},
                             !.spawnFailed = @ \/ hard,
                             !.allXX = @ /\ ~hard /\ meta.Status = <<"XX">>]
         IN  IF accepted(meta, err) /\ ~textFileBusy(meta)
             THEN /\ runReturn(t, l1, meta, err)
                  /\ faults' = faults
             ELSE /\ faults > 0
                  /\ faults' = faults - 1
                  /\ runSleep(t, l1)
  /\ UNCHANGED <<cell, rootOK, boxes, conf, fvars>>

\* time.Sleep(runErrTimeout) returns after the full interval, whatever the
\* context; then the loop goes on.
RunWake(t) ==
  /\ pc[t] = "run_sleep"
  /\ runContinue(t, [loc[t] EXCEPT !.sleeps = @ + 1,
                                   !.sleptCancelled = @ \/ loc[t].sleepCancelled,
                                   !.sleepCancelled = FALSE])
  /\ UNCHANGED <<cell, rootOK, boxes, conf, fvars, faults>>

\* The caller's context is cancelled or reaches its deadline during a
\* RunCommand call (or before the call has the mutex).
Cancel(t) ==
  /\ loc[t].op = "RunCommand"
  /\ pc[t] \in {"lock"} \cup RunPcs
  /\ ~loc[t].ctxDone
  /\ faults > 0
  /\ faults' = faults - 1
  /\ loc' = [loc EXCEPT ![t].ctxDone = TRUE]
  /\ UNCHANGED <<cell, rootOK, boxes, mu, conf, pc, fvars>>

\* --------------------------------------------------------------------- New
\* New(id), and each "return New(id)": isolate --cg --init and the test of
\* its output.
NewInit(t) ==
  /\ pc[t] = "new_init"
  /\ LET l == loc[t] IN
       \E r \in IsolateInit(l.id, cell[l.id], rootOK) :
         LET br == newBranch(r.out, r.err)
             l1 == [l EXCEPT !.prevBranch = l.branch, !.prevRemedy = l.remedy,
                             !.branch = br, !.remedy = "none",
                             !.ret = r.out, !.initErr = r.err, !.prevRet = l.ret,
                             !.remedyErr = NoErr, !.nRemedies = 0,
                             !.prevN = l.nRemedies]
         IN  /\ cell' = [cell EXCEPT ![l.id] = r.cell]
             /\ CASE br = "cleanup" ->
                       /\ pc' = [pc EXCEPT ![t] = "new_cleanup"]
                       /\ loc' = [loc EXCEPT ![t] = l1]
                       /\ boxes' = boxes
                  [] br = "cleanup_nocg" ->
                       /\ pc' = [pc EXCEPT ![t] = "new_cleanup_nocg"]
                       /\ loc' = [loc EXCEPT ![t] = l1]
                       /\ boxes' = boxes
                  [] br = "chown" ->
                       /\ pc' = [pc EXCEPT ![t] = "new_chown"]
                       /\ loc' = [loc EXCEPT ![t] = l1]
                       /\ boxes' = boxes
                  [] br = "error" ->
                       /\ pc' = [pc EXCEPT ![t] = "ret"]
                       /\ loc' = [loc EXCEPT ![t] = [l1 EXCEPT !.err = r.err]]
                       /\ boxes' = boxes
                  [] br = "box" ->
                       /\ pc' = [pc EXCEPT ![t] = "ret"]
                       /\ boxes' = Append(boxes, [boxID |-> l.id, path |-> TrimSpace(r.out)])
                       /\ loc' = [loc EXCEPT ![t] = [l1 EXCEPT !.h = Len(boxes) + 1]]
  /\ UNCHANGED <<rootOK, mu, conf, fvars, faults>>

\* "Box already exists": isolate --cg --cleanup, its error only logged, then
\* New(id) again.
NewCleanup(t) ==
  /\ pc[t] = "new_cleanup"
  /\ \E r \in IsolateCleanup(cell[loc[t].id], TRUE) :
       /\ cell' = [cell EXCEPT ![loc[t].id] = r.cell]
       /\ loc' = [loc EXCEPT ![t].remedy = "cleanup --cg", ![t].remedyErr = r.err,
                              ![t].nRemedies = @ + 1]
  /\ pc' = [pc EXCEPT ![t] = "new_init"]
  /\ UNCHANGED <<rootOK, boxes, mu, conf, fvars, faults>>

\* "incompatible control group mode": isolate --cleanup without --cg, its
\* error only logged, then New(id) again.
NewCleanupNoCg(t) ==
  /\ pc[t] = "new_cleanup_nocg"
  /\ \E r \in IsolateCleanup(cell[loc[t].id], FALSE) :
       /\ cell' = [cell EXCEPT ![loc[t].id] = r.cell]
       /\ loc' = [loc EXCEPT ![t].remedy = "cleanup", ![t].remedyErr = r.err,
                              ![t].nRemedies = @ + 1]
  /\ pc' = [pc EXCEPT ![t] = "new_init"]
  /\ UNCHANGED <<rootOK, boxes, mu, conf, fvars, faults>>

\* "Must be started as root": os.Chown of the binary; its error is returned,
\* otherwise New(id) again.  A chown that succeeds need not make the
\* primitive privileged.
NewChown(t) ==
  /\ pc[t] = "new_chown"
  /\ \/ /\ loc' = [loc EXCEPT ![t].err = "chown: operation not permitted",
                               ![t].remedy = "chown",
                               ![t].remedyErr = "chown: operation not permitted",
                               ![t].nRemedies = @ + 1]
        /\ pc' = [pc EXCEPT ![t] = "ret"]
        /\ rootOK' = rootOK
     \/ /\ rootOK' \in BOOLEAN
        /\ loc' = [loc EXCEPT ![t].remedy = "chown", ![t].nRemedies = @ + 1]
        /\ pc' = [pc EXCEPT ![t] = "new_init"]
  /\ UNCHANGED <<cell, boxes, mu, conf, fvars, faults>>

\* ------------------------------------------------------ the specifications
\* parseMetaFile is not being called.
MetaIdle ==
  /\ mlines = << >>
  /\ mstate = "idle"
  /\ mnext = 0
  /\ mfile = NilStats
  /\ mprev = NilStats

FlagsIdle ==
  /\ fcfg0 = ZeroConfig
  /\ fcfg = [k \in Objs |-> ZeroConfig]
  /\ fres = [k \in Objs |-> NotBuilt]
  /\ fbuilds = [k \in Objs |-> 0]
  /\ fmeta = NoFile
  /\ MetaIdle

\* No goroutine is in a call, no mutex is held; the callers hold a zero
\* RunConfig and the demo's RunConfig.
CallersIdle ==
  /\ mu = [h \in Handles |-> NoThread]
  /\ conf = [c \in ConfRefs |-> IF c = "c1" THEN ZeroConfig ELSE DemoConfig]
  /\ pc = [t \in Threads |-> "idle"]
  /\ loc = [t \in Threads |-> Loc0]

\* The handle New(id) returns on a clean, privileged host.
NewBox(id) == [boxID |-> id, path |-> TrimSpace(BoxPath(id) \o <<"\n">>)]

\* New, Close and the file operations, called by two goroutines.  The
\* program starts with no handle, either on a clean host or on one where an
\* earlier run left a cell with files and a cell made without --cg and the
\* primitive is not yet privileged.
NewInitial ==
  /\ \/ cell = [id \in BoxIDs |-> NoCell] /\ rootOK = TRUE
     \/ /\ cell = [id \in BoxIDs |-> IF id = DemoBoxID
                                       THEN [mode |-> "cg", files |-> {BoxFile}]
                                       ELSE [mode |-> "nocg", files |-> {}]]
        /\ rootOK = FALSE
  /\ boxes = << >>
  /\ faults = 0
  /\ CallersIdle
  /\ FlagsIdle

NewNext ==
  \E t \in Threads :
    \/ CallNew(t)
    \/ NewInit(t)
    \/ NewCleanup(t)
    \/ NewCleanupNoCg(t)
    \/ NewChown(t)
    \/ CallOp(t)
    \/ Lock(t)
    \/ WriteFile(t)
    \/ ReadFile(t)
    \/ FileExists(t)
    \/ Close(t)
    \/ Return(t)

SpecNew == NewInitial /\ [][NewNext]_vars

\* The methods of the handles, called by two goroutines.  The program has
\* called New once for each box id, on a clean host.
OpsInit ==
  /\ cell = [id \in BoxIDs |-> [mode |-> "cg", files |-> {}]]
  /\ rootOK = TRUE
  /\ boxes = <<NewBox(DemoBoxID), NewBox(DemoBoxID + 1)>>
  /\ faults = MaxFaults
  /\ CallersIdle
  /\ FlagsIdle

OpsNext ==
  \E t \in Threads :
    \/ CallOp(t)
    \/ CallRun(t)
    \/ Lock(t)
    \/ WriteFile(t)
    \/ ReadFile(t)
    \/ FileExists(t)
    \/ Close(t)
    \/ RunAttempt(t)
    \/ RunWaitDone(t)
    \/ RunWake(t)
    \/ Cancel(t)
    \/ Return(t)

SpecOps == OpsInit /\ [][OpsNext]_vars

\* The RunConfig values the caller of RunCommand passes besides the demo's:
\* every setting of the stdio fields, the other fields zero.
CallerConfigs ==
  {[ZeroConfig EXCEPT !.StderrToStdout = s, !.InputPath = i, !.OutputPath = o,
                      !.StderrPath = e] :
     s \in BOOLEAN, i \in Paths, o \in Paths, e \in Paths}

\* RunCommand called by one goroutine, as the demo does: New(DemoBoxID) has
\* returned and the input file may have been written.
RunInit ==
  /\ cell \in {[id \in BoxIDs |-> IF id = DemoBoxID THEN [mode |-> "cg", files |-> f]
                                   ELSE NoCell] : f \in SUBSET {BoxFile}}
  /\ rootOK = TRUE
  /\ boxes = <<NewBox(DemoBoxID)>>
  /\ faults = MaxRunFaults
  /\ mu = [h \in Handles |-> NoThread]
  /\ conf \in {[c \in ConfRefs |-> IF c = "c1" THEN z ELSE DemoConfig] :
                 z \in CallerConfigs}
  /\ pc = [t \in Threads |-> "idle"]
  /\ loc = [t \in Threads |-> Loc0]
  /\ FlagsIdle

RunNext ==
  \/ CallRun("g1")
  \/ Lock("g1")
  \/ RunAttempt("g1")
  \/ RunWaitDone("g1")
  \/ RunWake("g1")
  \/ Cancel("g1")
  \/ Return("g1")

SpecRun == RunInit /\ [][RunNext]_vars

\* A step of a method of a handle past its b.mu.Lock().
OpStep(t) ==
  \/ WriteFile(t)
  \/ ReadFile(t)
  \/ FileExists(t)
  \/ Close(t)
  \/ RunAttempt(t)
  \/ RunWaitDone(t)
  \/ RunWake(t)
  \/ Return(t)

\* The methods of one handle, called by two goroutines: the program has
\* called New(DemoBoxID) on a clean host.
OneBoxInit ==
  /\ cell = [id \in BoxIDs |-> IF id = DemoBoxID THEN [mode |-> "cg", files |-> {}]
                                 ELSE NoCell]
  /\ rootOK = TRUE
  /\ boxes = <<NewBox(DemoBoxID)>>
  /\ faults = MaxFaults
  /\ CallersIdle
  /\ FlagsIdle

\* Goroutine g1 runs commands in the box while goroutine g2 stages and reads
\* files and closes the box.
OneBoxNext ==
  \/ CallRun("g1")
  \/ CallOp("g2")
  \/ \E t \in Threads :
       \/ Lock(t)
       \/ WriteFile(t)
       \/ ReadFile(t)
       \/ FileExists(t)
       \/ Close(t)
       \/ RunAttempt(t)
       \/ RunWaitDone(t)
       \/ RunWake(t)
       \/ Cancel(t)
       \/ Return(t)

SpecOneBox == OneBoxInit /\ [][OneBoxNext]_vars

\* Every goroutine inside a method eventually takes its next step (each run
\* of the primitive and each sleep ends), and a goroutine waiting in
\* b.mu.Lock() gets the mutex if it is free again and again (sync.Mutex
\* hands the mutex to a waiter that has waited long).
FairSpecOneBox ==
  SpecOneBox /\ \A t \in Threads : WF_vars(OpStep(t)) /\ SF_vars(Lock(t))

\* Every goroutine that can take a step of New, of a file operation or of
\* Close eventually takes one (the Go scheduler runs every runnable
\* goroutine, and each invocation of the primitive ends).
NewStep(t) ==
  \/ NewInit(t)
  \/ NewCleanup(t)
  \/ NewCleanupNoCg(t)
  \/ NewChown(t)
  \/ Lock(t)
  \/ WriteFile(t)
  \/ ReadFile(t)
  \/ FileExists(t)
  \/ Close(t)
  \/ Return(t)

FairSpecNew == SpecNew /\ \A t \in Threads : WF_vars(NewStep(t))

\* ------------------------------------------------ the handles: the claims
IsRun(t) == loc[t].op = "RunCommand"
Returned(t) == pc[t] = "ret"

\* C1: no two goroutines are inside the guarded section of the same
\* IsolateBox together (WriteFile, ReadFile, FileExists, RunCommand, Close),
\* so no two RunCommand calls on one box wait for their primitive together,
\* and a RunCommand holds the mutex in every attempt and every backoff sleep.
C1_HandleOpsSerialized ==
  /\ \A t, u \in Threads :
       (t # u /\ InSection(t) /\ InSection(u)) => loc[t].h # loc[u].h
  /\ \A t, u \in Threads :
       (t # u /\ pc[t] = "run_wait" /\ pc[u] = "run_wait") => loc[t].h # loc[u].h
  /\ \A t \in Threads : pc[t] \in RunPcs => mu[loc[t].h] = t

\* A RunCommand in its second attempt, after one backoff sleep, with the
\* other goroutine waiting for the mutex of the same handle.
C1_Witness ==
  \E t, u \in Threads :
    /\ t # u
    /\ pc[t] = "run_wait" /\ loc[t].i = 2 /\ loc[t].sleeps = 1
    /\ pc[u] = "lock" /\ loc[u].h = loc[t].h

\* C2: the operations on one box id exclude each other: no two goroutines
\* are inside guarded sections for the same id together, and while a
\* goroutine is inside one, no New(id) for that id is between its --init
\* that found the cell and the --init it retries after the cleanup.
C2_IdentityOpsExclusive ==
  \A t, u \in Threads :
    (t # u /\ InSection(t)) =>
      /\ InSection(u) => IdOf(t) # IdOf(u)
      /\ pc[u] \in {"new_cleanup", "new_cleanup_nocg"} => IdOf(t) # loc[u].id
      /\ (pc[u] = "new_init" /\ loc[u].remedy # "none") => IdOf(t) # loc[u].id

\* C3: a RunCommand call whose every attempt decoded a report of status "XX"
\* has, when it returns, started the primitive 3 times and slept 3 times,
\* and returns a nil error with a report that is nil or of status "XX".
C3_RetryExhaustion ==
  \A t \in Threads :
    (Returned(t) /\ IsRun(t) /\ loc[t].allXX) =>
      /\ loc[t].spawns = 3
      /\ loc[t].sleeps = 3
      /\ loc[t].err = NoErr
      /\ loc[t].meta.nil \/ loc[t].meta.Status = <<"XX">>

\* A call returned after three attempts of status "XX".
C3_Witness ==
  \E t \in Threads :
    /\ Returned(t) /\ IsRun(t) /\ loc[t].allXX
    /\ loc[t].spawns = 3 /\ loc[t].sleeps = 3
    /\ ~loc[t].meta.nil /\ loc[t].meta.Status = <<"XX">>

\* C4: a RunCommand call in which cmd.Run ended with an error that is no
\* exit status has returned, at once, with a non-nil error; a call without
\* such a failure returns a nil error, whatever the exit codes.
C4_SpawnFailureIsHardError ==
  \A t \in Threads : IsRun(t) =>
    /\ loc[t].spawnFailed => (Returned(t) /\ loc[t].err # NoErr)
    /\ (Returned(t) /\ ~loc[t].spawnFailed) => loc[t].err = NoErr

\* C5: no backoff sleep that began when the context was already done runs
\* for its full interval.
C5_CancelCutsBackoffShort ==
  \A t \in Threads : ~loc[t].sleptCancelled

\* C6: a New(id) that found the cell to exist eventually returns (the
\* number of its recursive retries is bounded); the claim adds that it
\* returns a box, no error, and a cell without stale files.
C6_NewEventuallyReturns ==
  \A t \in Threads : (pc[t] = "new_cleanup") ~> Returned(t)

\* C10: RunCommand calls on boxes of different ids share nothing: a
\* goroutine waiting for the mutex of a box is held up only by a call on
\* that box, and a RunConfig one of two concurrent calls has written is not
\* one the other has built its flags from.
C10_BoxesShareNoState ==
  /\ \A t \in Threads :
       (pc[t] = "lock" /\ mu[loc[t].h] # NoThread) =>
          IdOf(mu[loc[t].h]) = IdOf(t)
  /\ \A t, u \in Threads :
       (t # u /\ pc[t] \in RunPcs /\ pc[u] \in RunPcs /\ IdOf(t) # IdOf(u)) =>
          ~(loc[t].cref = loc[u].cref /\ loc[t].wrote /\ loc[u].built)

\* A report the claim says is returned at once.
C12_Acceptable(r) ==
  /\ ~r.nil
  /\ r.Status # <<"XX">>
  /\ ~(r.ExitCode = 127 /\ Contains(r.InternalMessage, <<"execve">>))

\* C12: a RunCommand call is never in its loop after an attempt that decoded
\* an acceptable report (non-nil, status other than "XX", not exit code 127
\* with "execve"), whatever the exit code; a call whose latest attempt
\* decoded one has returned that report with a nil error, without a sleep
\* for that attempt and without a further attempt.
C12_AcceptedAtOnce ==
  \A t \in Threads : IsRun(t) =>
    /\ pc[t] \in RunPcs => ~C12_Acceptable(loc[t].report)
    /\ (Returned(t) /\ C12_Acceptable(loc[t].report)) =>
         /\ loc[t].meta = loc[t].report
         /\ loc[t].err = NoErr
         /\ loc[t].i = loc[t].reportAt
         /\ loc[t].sleepAt < loc[t].reportAt
         /\ loc[t].spawns <= loc[t].reportAt

\* A call that returned the report of its second attempt, of exit code 1,
\* after a first attempt of status "XX" and one sleep.
C12_Witness ==
  \E t \in Threads :
    /\ Returned(t) /\ IsRun(t)
    /\ loc[t].reportAt = 2 /\ loc[t].spawns = 2 /\ loc[t].sleeps = 1
    /\ loc[t].meta.ExitCode = 1 /\ loc[t].meta.Status = <<"RE">>
    /\ loc[t].err = NoErr

\* A report the claim calls text file busy.
C13_Busy(r) ==
  /\ ~r.nil
  /\ r.Status # <<"XX">>
  /\ r.ExitCode = 127
  /\ Contains(r.InternalMessage, <<"execve">>)

\* C13: an attempt that decoded a text-file-busy report is followed by one
\* backoff sleep and, if it was not the third, by the next attempt; the
\* call spawns the primitive at most 3 times and sleeps at most once per
\* attempt; a call returns such a report only when its 3 attempts are used
\* up, after the sleep that followed the report, with a nil error, and so it
\* does when the report is that of the third attempt.
C13_TextFileBusyRetried ==
  \A t \in Threads : IsRun(t) =>
    /\ loc[t].spawns <= 3
    /\ loc[t].sleeps <= 3
    /\ pc[t] \in RunPcs => (loc[t].i <= 3 /\ loc[t].sleeps <= loc[t].i - 1)
    /\ (pc[t] \in RunPcs /\ C13_Busy(loc[t].report) /\ loc[t].reportAt = loc[t].i) =>
         (pc[t] = "run_sleep" /\ loc[t].sleepAt = loc[t].i)
    /\ (Returned(t) /\ C13_Busy(loc[t].meta)) =>
         /\ loc[t].meta = loc[t].report
         /\ loc[t].sleepAt >= loc[t].reportAt
         /\ loc[t].i = runErrRetries + 1
         /\ loc[t].err = NoErr
    /\ (Returned(t) /\ C13_Busy(loc[t].report) /\ loc[t].reportAt = 3) =>
         /\ loc[t].meta = loc[t].report
         /\ loc[t].sleepAt = 3
         /\ loc[t].err = NoErr

\* A call that returned the text-file-busy report of its third attempt after
\* three spawns and three sleeps.
C13_Witness ==
  \E t \in Threads :
    /\ Returned(t) /\ IsRun(t)
    /\ C13_Busy(loc[t].meta)
    /\ loc[t].reportAt = 3 /\ loc[t].spawns = 3 /\ loc[t].sleeps = 3

\* C14: when a RunCommand call has returned, by acceptance, by exhaustion,
\* after failures to start the primitive or to create the temporary file,
\* no report file it created exists any more.
C14_ReportFilesRemovedOnReturn ==
  \A t \in Threads : (IsRun(t) /\ Returned(t)) => loc[t].metaFiles = {}

\* A call returned after an attempt in which the primitive could not be
\* started (runCommand left the report file to RunCommand's deferred remove).
C14_Witness ==
  \E t \in Threads :
    /\ IsRun(t) /\ Returned(t)
    /\ loc[t].spawnFailed /\ loc[t].built
    /\ loc[t].metaFiles = {}

\* C15: at most one report file of a RunCommand call exists at any time: when
\* an attempt creates its report file, the files of the earlier attempts are
\* gone.
C15_OneReportFileAtATime ==
  \A t \in Threads : Cardinality(loc[t].metaFiles) <= 1

\* ------------------------------------------------------- New: the claims
IsNew(t) == loc[t].op = "New"

\* The condition an output of --init reports, as the claims name them.
C16_Exists(ret) == HasPrefix(ret, <<"Box already exists">>)
C16_WrongMode(ret) == Contains(ret, <<"incompatible control group mode">>)
C16_NotRoot(ret) == HasPrefix(ret, <<"Must be started as root">>)

\* C16: when the latest --init of a New call failed with an output that
\* matches none of the three patterns, the call has returned that error and
\* no box, and has done no cleanup, no chown and no further --init.
C16_OtherInitErrorIsFatal ==
  \A t \in Threads :
    (IsNew(t) /\ loc[t].initErr # NoErr /\ ~C16_Exists(loc[t].ret)
       /\ ~C16_WrongMode(loc[t].ret) /\ ~C16_NotRoot(loc[t].ret)) =>
      /\ Returned(t)
      /\ loc[t].err = loc[t].initErr
      /\ loc[t].h = 0
      /\ loc[t].nRemedies = 0
      /\ \A h \in 1..Len(boxes) : boxes[h].path # TrimSpace(loc[t].ret)

\* A New call that returned the error of an --init that could not create the
\* box directory, after a cleanup of the existing cell.
C16_Witness ==
  \E t \in Threads :
    /\ IsNew(t) /\ Returned(t)
    /\ loc[t].ret = <<"Cannot create box directory", "\n">>
    /\ loc[t].err = ExitError /\ loc[t].h = 0
    /\ C16_Exists(loc[t].prevRet) /\ loc[t].prevRemedy = "cleanup --cg"

\* C17: between two consecutive --init invocations of a New call exactly one
\* remedy was run, the one for what the first of them reported; after a
\* cleanup, failed or not, the call goes on to --init with no error; after a
\* chown that failed the call has returned the chown's error and no box.
C17_OneMatchingRemedy ==
  \A t \in Threads : IsNew(t) =>
    /\ loc[t].prevRet # << >> =>
         /\ loc[t].prevN = 1
         /\ C16_Exists(loc[t].prevRet) => loc[t].prevRemedy = "cleanup --cg"
         /\ (~C16_Exists(loc[t].prevRet) /\ C16_WrongMode(loc[t].prevRet))
              => loc[t].prevRemedy = "cleanup"
         /\ (~C16_Exists(loc[t].prevRet) /\ ~C16_WrongMode(loc[t].prevRet))
              => (C16_NotRoot(loc[t].prevRet) /\ loc[t].prevRemedy = "chown")
    /\ loc[t].nRemedies <= 1
    /\ loc[t].remedy \in {"cleanup --cg", "cleanup"} =>
         (pc[t] = "new_init" /\ loc[t].err = NoErr)
    /\ loc[t].remedy = "chown" =>
         IF loc[t].remedyErr # NoErr
         THEN Returned(t) /\ loc[t].err = loc[t].remedyErr /\ loc[t].h = 0
         ELSE pc[t] = "new_init" /\ loc[t].err = NoErr
    /\ (loc[t].remedy = "cleanup --cg") => C16_Exists(loc[t].ret)
    /\ (loc[t].remedy = "cleanup") => C16_WrongMode(loc[t].ret)
    /\ (loc[t].remedy = "chown") => C16_NotRoot(loc[t].ret)

\* A New call that returned a box from its second --init, after an --init
\* that reported the wrong control group mode and a cleanup without --cg.
C17_Witness ==
  \E t \in Threads :
    /\ IsNew(t) /\ Returned(t) /\ loc[t].h # 0 /\ loc[t].err = NoErr
    /\ C16_WrongMode(loc[t].prevRet) /\ loc[t].prevRemedy = "cleanup"
    /\ loc[t].prevN = 1

\* ----------------------------------------------------- Close: the claims
IsClose(t) == loc[t].op = "Close"

\* C18: a Close call runs the cleanup of its box once, holding the mutex of
\* the handle, and returns the error of that run (or nil) as it is; it does
\* not run it again, and while it is inside Close no other goroutine is
\* inside RunCommand or a file operation on the same handle.
C18_CloseOnceUnderMutex ==
  \A t \in Threads : IsClose(t) =>
    /\ loc[t].closeRuns <= 1
    /\ pc[t] = "lock" => loc[t].closeRuns = 0
    /\ pc[t] = "Close" =>
         /\ loc[t].closeRuns = 0
         /\ mu[loc[t].h] = t
         /\ \A u \in Threads \ {t} : InSection(u) => loc[u].h # loc[t].h
    /\ Returned(t) =>
         /\ loc[t].closeRuns = 1
         /\ loc[t].err = loc[t].closeErr
         /\ mu[loc[t].h] # t

\* A Close returned the error of its failed cleanup while the other
\* goroutine waits for the mutex of the same handle to run a command.
C18_Witness ==
  \E t, u \in Threads :
    /\ t # u
    /\ IsClose(t) /\ Returned(t) /\ loc[t].err = ExitError /\ loc[t].closeRuns = 1
    /\ IsRun(u) /\ pc[u] = "lock" /\ loc[u].h = loc[t].h

\* ------------------------------------------- RunCommand and the RunConfig
\* The caller's RunConfig c0 with the defaults the claim describes.
C19_Defaulted(c0) ==
  [c0 EXCEPT !.InputPath = IF c0.InputPath = Empty THEN DevNull ELSE c0.InputPath,
             !.OutputPath = IF c0.OutputPath = Empty THEN DevNull ELSE c0.OutputPath,
             !.StderrPath = IF c0.StderrPath = Empty /\ ~c0.StderrToStdout
                            THEN DevNull ELSE c0.StderrPath]

\* C19: during and after a RunCommand call the caller's RunConfig is the one
\* it passed, or that one with the defaults: InputPath and OutputPath
\* changed only from empty to /dev/null, StderrPath only from empty to
\* /dev/null and only without StderrToStdout, every other field as it was;
\* once the call has built its flags the defaults are in the RunConfig and
\* stay there after the return.
C19_OnlyDefaultsWritten ==
  \A t \in Threads : IsRun(t) =>
    LET c0 == loc[t].conf0
        c == conf[loc[t].cref]
    IN  /\ c \in {c0, C19_Defaulted(c0)}
        /\ loc[t].built => c = C19_Defaulted(c0)
        /\ \A f \in DOMAIN c0 \ {"InputPath", "OutputPath", "StderrPath"} : c[f] = c0[f]
        /\ c0.InputPath # Empty => c.InputPath = c0.InputPath
        /\ c0.OutputPath # Empty => c.OutputPath = c0.OutputPath
        /\ (c0.StderrPath # Empty \/ c0.StderrToStdout) => c.StderrPath = c0.StderrPath

\* A call returned after building its flags on a RunConfig with StderrToStdout
\* set and the three paths empty: the two defaults are visible, StderrPath
\* is still empty.
C19_Witness ==
  \E t \in Threads :
    /\ IsRun(t) /\ Returned(t) /\ loc[t].built
    /\ loc[t].conf0.StderrToStdout
    /\ loc[t].conf0.InputPath = Empty /\ loc[t].conf0.OutputPath = Empty
    /\ loc[t].conf0.StderrPath = Empty
    /\ conf[loc[t].cref].InputPath = DevNull
    /\ conf[loc[t].cref].OutputPath = DevNull
    /\ conf[loc[t].cref].StderrPath = Empty

\* ------------------------------------------------- the mutex: liveness
\* C20: a goroutine that has returned from a method of a handle does not
\* hold the handle's mutex, and every goroutine waiting for the mutex of a
\* handle eventually has it and returns from its method.
C20_MutexReleasedAndGranted ==
  /\ [](\A t \in Threads : (Returned(t) /\ loc[t].h # 0) => mu[loc[t].h] # t)
  /\ \A t \in Threads : (pc[t] = "lock") ~> Returned(t)

\* A RunCommand has returned after using up its attempts and no longer holds
\* the mutex of its handle, while another goroutine waits in b.mu.Lock() of
\* the same handle.
C20_Witness ==
  \E t \in Threads, u \in Threads :
    /\ IsRun(t) /\ Returned(t)
    /\ loc[t].i = runErrRetries + 1
    /\ mu[loc[t].h] # t
    /\ u # t /\ pc[u] = "lock" /\ loc[u].h = loc[t].h

\* ----------------------------------------------- flag builder specification
FlagsInit ==
  /\ fcfg0 \in RunConfigs
  /\ fcfg = [k \in Objs |-> fcfg0]
  /\ fres = [k \in Objs |-> NotBuilt]
  /\ fbuilds = [k \in Objs |-> 0]
  /\ fmeta \in {NoFile, <<"/tmp/sandbox-meta-1">>}
  /\ cell = [id \in BoxIDs |-> NoCell]
  /\ rootOK = TRUE
  /\ boxes = << >>
  /\ faults = 0
  /\ CallersIdle
  /\ MetaIdle

\* One call buildRunFlags(&obj k, metaFile) on box DemoBoxID.  RunCommand makes
\* one per attempt on the same RunConfig, at most runErrRetries per call.
Build(k) ==
  /\ fbuilds[k] < runErrRetries
  /\ \E order \in KeyOrders(fcfg[k].EnvToSet) :
       LET r == buildRunFlags(DemoBoxID, fcfg[k], fmeta, order)
       IN  /\ fres' = [fres EXCEPT ![k] = r.res]
           /\ fcfg' = [fcfg EXCEPT ![k] = r.c]
  /\ fbuilds' = [fbuilds EXCEPT ![k] = @ + 1]
  /\ UNCHANGED <<fcfg0, fmeta, bvars, mvars>>

FlagsNext == \E k \in Objs : Build(k)

SpecFlags == FlagsInit /\ [][FlagsNext]_vars

\* -------------------------------------------------- decoder specification
\* The lines report files are made of.
MetaLines ==
  {<<"status", ":", "RE">>,
   <<"exitcode", ":", "1", "2", "7">>,
   <<"exitcode", ":", "1", "x">>,
   <<"cg-mem", ":", "9", "9", "9", "9", "9", "9", "9", "9", "9", "9",
                    "9", "9", "9", "9", "9", "9", "9", "9", "9", "9">>,
   <<"exitsig", ":">>,
   <<"time", ":", "0", ".", "0", "4", "2">>,
   <<"time", ":", "1", ".", "5", "s">>,
   <<"killed", ":", "0">>,
   <<"message", ":", "Caught fatal signal 11", ":", " core dumped">>,
   <<"max-rss", ":", "5">>,
   <<"exitcode", "=", "3">>,
   <<"note", ":", LongRun>>,
   <<"cg-mem", ":", "2", "0", "4", "8">>}

MetaFiles == UNION {[1..n -> MetaLines] : n \in 0..MaxLines}

\* The output of the primitive that runCommand collected in isolateOut.
IsolateOut == <<"execve(\"/box/prog\"): Text file busy">>

\* parseMetaFile(r, out) has been called: with a nil reader, or with a
\* reader on a report file, in which case file is new and holds the output.
MetaInit ==
  /\ \/ /\ mstate = "nil"
        /\ mlines = << >>
        /\ mfile = NilStats
     \/ /\ mstate = "scan"
        /\ mlines \in MetaFiles
        /\ mfile = NewStats(IsolateOut)
  /\ mnext = 1
  /\ mprev = mfile
  /\ fcfg0 = ZeroConfig
  /\ fcfg = [k \in Objs |-> ZeroConfig]
  /\ fres = [k \in Objs |-> NotBuilt]
  /\ fbuilds = [k \in Objs |-> 0]
  /\ fmeta = NoFile
  /\ cell = [id \in BoxIDs |-> NoCell]
  /\ rootOK = TRUE
  /\ boxes = << >>
  /\ faults = 0
  /\ CallersIdle

\* r == nil: return nil.
ReturnNil ==
  /\ mstate = "nil"
  /\ mstate' = "returned_nil"
  /\ UNCHANGED <<mlines, mnext, mfile, mprev, bvars, fcfg, fcfg0, fres, fbuilds, fmeta>>

\* s.Scan() returns true and the body of the loop runs on the line.
ScanLine ==
  /\ mstate = "scan"
  /\ mnext <= Len(mlines)
  /\ ~TooLong(mlines[mnext])
  /\ mfile' = parseLine(mfile, mlines[mnext])
  /\ mprev' = mfile
  /\ mnext' = mnext + 1
  /\ UNCHANGED <<mlines, mstate, bvars, fcfg, fcfg0, fres, fbuilds, fmeta>>

\* s.Scan() returns false, at the end of the input or at a line that does
\* not fit the scanner's buffer (s.Err() is not looked at): return file.
ScanEnd ==
  /\ mstate = "scan"
  /\ IF mnext <= Len(mlines) THEN TooLong(mlines[mnext]) ELSE TRUE
  /\ mstate' = "returned"
  /\ UNCHANGED <<mlines, mnext, mfile, mprev, bvars, fcfg, fcfg0, fres, fbuilds, fmeta>>

MetaNext == ReturnNil \/ ScanLine \/ ScanEnd

SpecMeta == MetaInit /\ [][MetaNext]_vars

\* ---------------------------------------------------- decoder: the claims
\* The keys parseMetaFile stores a field for, and those it stores as numbers.
C11_StoredKeys ==
  {<<"cg-mem">>, <<"exitcode">>, <<"exitsig">>, <<"killed">>, <<"message">>,
   <<"status">>, <<"time">>}

\* A line the claim says is skipped: no separator, or a key that is not stored.
C11_Skipped(line) == ~Cut(line).found \/ Cut(line).key \notin C11_StoredKeys

\* A value that is no decimal integer an int can hold, and one that is no
\* decimal number.
C11_MalformedInt(v) ==
  Unsigned(v) = << >> \/ ~AllDigits(Unsigned(v)) \/ Len(Unsigned(v)) > 19

C11_MalformedFloat(v) ==
  LET b == Unsigned(v)
      dot == IndexOf(b, ".")
      rest == IF dot = 0 THEN b ELSE SubSeq(b, 1, dot - 1) \o SubSeq(b, dot + 1, Len(b))
  IN  rest = << >> \/ ~AllDigits(rest)

RECURSIVE C11_Decode(_, _)
C11_Decode(file, lines) ==
  IF lines = << >> THEN file
  ELSE C11_Decode(parseLine(file, Head(lines)), Tail(lines))

\* C11: parseMetaFile on a non-nil reader returns a report; a line without
\* ':' or with a key that is not stored leaves the report as it was, and the
\* report returned is the one the other lines alone give; a numeric key with
\* a malformed value sets its field to zero; "killed" sets Killed whatever
\* its value.
C11_DecoderRobust ==
  mstate \in {"scan", "returned"} =>
    /\ ~mfile.nil
    /\ mnext > 1 =>
         LET line == mlines[mnext - 1]
             c == Cut(line)
         IN  /\ C11_Skipped(line) => mfile = mprev
             /\ (c.found /\ c.key = <<"cg-mem">> /\ C11_MalformedInt(c.val))
                  => mfile.Memory = 0
             /\ (c.found /\ c.key = <<"exitcode">> /\ C11_MalformedInt(c.val))
                  => mfile.ExitCode = 0
             /\ (c.found /\ c.key = <<"exitsig">> /\ C11_MalformedInt(c.val))
                  => mfile.ExitSignal = 0
             /\ (c.found /\ c.key = <<"time">> /\ C11_MalformedFloat(c.val))
                  => mfile.Time = Float(0)
             /\ (c.found /\ c.key = <<"killed">>) => mfile.Killed
    /\ mstate = "returned" =>
         mfile = C11_Decode(NewStats(IsolateOut),
                            SelectSeq(mlines, LAMBDA l : ~C11_Skipped(l)))

\* ------------------------------------------------ flag builder: the claims
Built(k) == fres[k] # NotBuilt

\* The positions of flag list f whose flag starts with prefix p.
Positions(f, p) == {j \in 1..Len(f) : HasPrefix(f[j], p)}

StderrPositions(f) ==
  {j \in 1..Len(f) : f[j] = <<"--stderr-to-stdout">> \/ HasPrefix(f[j], <<"--stderr=">>)}

\* C7: every build (each attempt of a RunCommand rebuilds on the same
\* RunConfig) yields exactly one --stdin flag, exactly one --stdout flag and
\* exactly one of --stderr-to-stdout / --stderr=<path>; a path that was
\* empty in the caller's RunConfig appears as /dev/null, and no stdio flag
\* carries an empty value.
C7_StdioDefaultsToDevNull ==
  \A k \in Objs : Built(k) =>
    LET f == fres[k] IN
      /\ Cardinality(Positions(f, <<"--stdin=">>)) = 1
      /\ Cardinality(Positions(f, <<"--stdout=">>)) = 1
      /\ Cardinality(StderrPositions(f)) = 1
      /\ \A j \in 1..Len(f) :
           f[j] \notin {<<"--stdin=">>, <<"--stdout=">>, <<"--stderr=">>}
      /\ fcfg0.InputPath = Empty =>
           \E j \in 1..Len(f) : f[j] = <<"--stdin=", "/dev/null">>
      /\ fcfg0.InputPath # Empty =>
           \E j \in 1..Len(f) : f[j] = <<"--stdin=">> \o fcfg0.InputPath
      /\ fcfg0.OutputPath = Empty =>
           \E j \in 1..Len(f) : f[j] = <<"--stdout=", "/dev/null">>
      /\ fcfg0.OutputPath # Empty =>
           \E j \in 1..Len(f) : f[j] = <<"--stdout=">> \o fcfg0.OutputPath
      /\ fcfg0.StderrToStdout =>
           \E j \in 1..Len(f) : f[j] = <<"--stderr-to-stdout">>
      /\ (~fcfg0.StderrToStdout /\ fcfg0.StderrPath = Empty) =>
           \E j \in 1..Len(f) : f[j] = <<"--stderr=", "/dev/null">>
      /\ (~fcfg0.StderrToStdout /\ fcfg0.StderrPath # Empty) =>
           \E j \in 1..Len(f) : f[j] = <<"--stderr=">> \o fcfg0.StderrPath

\* A third build on a RunConfig whose three stdio paths were all unset.
C7_Witness ==
  /\ fcfg0.InputPath = Empty /\ fcfg0.OutputPath = Empty
  /\ fcfg0.StderrPath = Empty /\ ~fcfg0.StderrToStdout
  /\ fbuilds["A"] = runErrRetries
  /\ \E j \in 1..Len(fres["A"]) : fres["A"][j] = <<"--stderr=", "/dev/null">>

\* The flag the claim describes for one directory rule.
C8_ExpectedDirFlag(dir) ==
  IF dir.Removes THEN <<"--dir=">> \o dir.In \o <<"=">>
  ELSE <<"--dir=">> \o dir.In
       \o (IF dir.Out # Empty THEN <<"=">> \o dir.Out
           ELSE IF dir.Verbatim THEN Empty ELSE <<"=">> \o dir.In)
       \o (IF dir.Opts # Empty THEN <<":">> \o dir.Opts ELSE Empty)

\* C8: one --dir flag per directory rule, in list order, right after the
\* --box-id, --cg and --processes flags; a remove rule gives --dir=<In>=
\* whatever its Out and Opts; an add rule gives In, then =<Out> (In when Out
\* is empty, nothing when Verbatim is set too), then :<Opts> when non-empty.
C8_DirFlagsFollowRules ==
  \A k \in Objs : Built(k) =>
    LET f == fres[k]
        D == fcfg0.Directories
    IN  /\ f[1] = <<"--box-id=", "50">>
        /\ f[2] = <<"--cg">>
        /\ f[3] = <<"--processes">>
        /\ Positions(f, <<"--dir=">>) = {3 + j : j \in 1..Len(D)}
        /\ \A j \in 1..Len(D) : f[3 + j] = C8_ExpectedDirFlag(D[j])
        /\ \A j \in 1..Len(D) : D[j].Removes => f[3 + j] = <<"--dir=">> \o D[j].In \o <<"=">>

\* Two rules built: a remove rule with Out and Opts set, then a verbatim add
\* rule with neither.
C8_Witness ==
  /\ Built("A")
  /\ Len(fcfg0.Directories) = 2
  /\ fcfg0.Directories[1].Removes
  /\ fcfg0.Directories[1].Out # Empty /\ fcfg0.Directories[1].Opts # Empty
  /\ ~fcfg0.Directories[2].Removes /\ fcfg0.Directories[2].Verbatim
  /\ fcfg0.Directories[2].Out = Empty /\ fcfg0.Directories[2].Opts = Empty
  /\ fres["A"][4] = <<"--dir=", "/etc", "=">>
  /\ fres["A"][5] = <<"--dir=", "/etc">>

\* The --env=<key>=<value> flags of a RunConfig.
PairFlags(c) ==
  {<<"--env=">> \o key \o <<"=">> \o c.EnvToSet[key] : key \in DOMAIN c.EnvToSet}

\* Flag list f without the flags of set F.
Without(f, F) == SelectSeq(f, LAMBDA x : x \notin F)

\* C9 (as stated): two builds from equal RunConfig values, on the same box
\* with the same report path, give the identical ordered flag list.
C9_BuildsIdentical ==
  (Built("A") /\ Built("B")) => fres["A"] = fres["B"]

\* C9 (amended): two builds from equal RunConfig values give the same flags
\* in the same order except for the relative order of the
\* --env=<key>=<value> flags, which is identical only when EnvToSet has at
\* most one entry; in each build --full-env comes before every inherited
\* name and every inherited name before every explicit pair.
C9_BuildsEqualUpToEnvPairOrder ==
  (Built("A") /\ Built("B")) =>
    LET a == fres["A"]
        b == fres["B"]
        P == PairFlags(fcfg0)
    IN  /\ Len(a) = Len(b)
        /\ Without(a, P) = Without(b, P)
        /\ \A j \in 1..Len(a) : (a[j] \in P) <=> (b[j] \in P)
        /\ {a[j] : j \in 1..Len(a)} \cap P = P
        /\ {b[j] : j \in 1..Len(b)} \cap P = P
        /\ Cardinality({j \in 1..Len(a) : a[j] \in P}) = Cardinality(DOMAIN fcfg0.EnvToSet)
        /\ Cardinality(DOMAIN fcfg0.EnvToSet) <= 1 => a = b
        /\ \A f \in {a, b} : \A i, j \in 1..Len(f) :
             /\ (f[i] = <<"--full-env">> /\ HasPrefix(f[j], <<"--env=">>)) => i < j
             /\ (HasPrefix(f[i], <<"--env=">>) /\ f[i] \notin P /\ f[j] \in P) => i < j

\* Both objects built from a RunConfig with two EnvToSet entries, an
\* inherited name and InheritEnv, the two builds ranging over the map in
\* different orders.
C9_Witness ==
  /\ Built("A") /\ Built("B")
  /\ Cardinality(DOMAIN fcfg0.EnvToSet) = 2
  /\ fcfg0.InheritEnv /\ Len(fcfg0.EnvToInherit) = 1
  /\ fres["A"] # fres["B"]

=============================================================================
